---- MODULE Spec2Model ----
(***************************************************************************)
(* Model of the background service of the BPT-Pro-Libretranslate extension *)
(* (src/api.js): the sliding-window rate limiter, the message listener     *)
(* that gates translate / testConnection intents, the two transport        *)
(* functions and the periodic rate-limit broadcast.  The settings popup    *)
(* variants (src/unnamed/part_002, part_003) appear as the senders of      *)
(* messages and, for the variant that calls fetch itself, as a second      *)
(* source of transport calls.  The content script of a page                *)
(* (src/render.js, TranslationManager) is modelled with its activation     *)
(* shortcuts and its text-selection handler.                               *)
(*                                                                         *)
(* Times are milliseconds as returned by Date.now().  JavaScript values    *)
(* are modelled as follows: undefined is the string Undefined, null for    *)
(* waitTime is the empty sequence (None) and a present value v is <<v>>,   *)
(* template strings are records holding the fixed text and the value that  *)
(* is interpolated.                                                        *)
(***************************************************************************)
EXTENDS Integers, Sequences, FiniteSets, Bags, TLC

\* ------------------------------------------------------------------------
\* Program constants (src/api.js:1-2)
RATE_LIMIT == 8
TIME_WINDOW == 60 * 1000

\* ------------------------------------------------------------------------
\* Bounds of the model
StartTime == 1000000      \* Date.now() when the service worker starts
MaxTicks == 2             \* how often the clock is observed to advance
MaxChecks == 11           \* admission checks in one behaviour of LimiterSpec
MaxStatusChecks == 10     \* admission checks in one behaviour of StatusSpec
MaxStatusTicks == 1       \* advances of the clock in one behaviour of StatusSpec
MaxEgressTicks == 1       \* advances of the clock in one behaviour of EgressSpec
MaxFrameChecks == 10      \* admission checks in one behaviour of FrameSpec
MaxFrameFetches == 1      \* transport calls in one behaviour of FrameSpec
MaxFramePending == 1      \* callbacks pending at once in FrameSpec
MaxLog == 17              \* admission checks in one behaviour of any specification
MaxIntents == 10          \* admission checks in one behaviour of Spec
MaxInflight == 2          \* intents awaiting the network at one time
MaxQueries == 1           \* chrome.tabs.query callbacks waiting at one time
MaxTasks == 2             \* callbacks the content script is waiting for
MaxSent == 1              \* translate intents after which a page of ContentSpec starts no more
MaxSends == 2             \* translate intents after which a page of any specification starts no more

\* Amounts by which Date.now() advances between two events: 1 ms, one
\* millisecond short of the window, the window.
Steps == {1, TIME_WINDOW - 1, TIME_WINDOW}

\* ------------------------------------------------------------------------
\* JavaScript values
Undefined == "undefined"
None == <<>>
Some(v) == <<v>>

\* x is truthy for the strings and numbers the model uses
TruthyStr(s) == s # Undefined /\ s # ""
TruthyNum(n) == n # 0

\* Math.ceil(n / d) for d > 0 (\div rounds towards minus infinity)
MathCeil(n, d) == -((-n) \div d)

VARIABLES
    now,                \* Date.now()
    ticks,              \* number of clock advances so far
    requestTimestamps,  \* src/api.js:3
    checks,             \* history: time and result of every canMakeRequest call
    inflight,           \* bag of the intents whose promise has not settled
    fetchCalls,         \* fetch calls made by the background service
    queries,            \* chrome.tabs.query callbacks of line 34 not yet run
    lastEvent,          \* what the last step did (response, notification, ...)
    \* the content script of one page (src/render.js, TranslationManager)
    isPluginActive,     \* this.state.isPluginActive
    isTranslationSent,  \* this.state.isTranslationSent
    shortcuts,          \* this.state.shortcuts
    storage,            \* chrome.storage.local: isPluginActive, apiUrl, apiKey, shortcuts
    selection,          \* window.getSelection().toString()
    tasks,              \* chrome.storage callbacks and events not yet run, in order
    awaiting,           \* translate intents of selections whose response has not arrived
    retranslating,      \* translate intents of retranslateText whose response has not arrived
    popups,             \* translation popups in the document
    sent,               \* translate intents sent by the page
    episode,            \* history of the page since the last selectionchange
    pageEvent           \* what the last step of the content script did

pageVars == <<isPluginActive, isTranslationSent, shortcuts, storage, selection, tasks,
              awaiting, retranslating, popups, sent, episode, pageEvent>>
serviceVars == <<now, ticks, requestTimestamps, checks, inflight, fetchCalls, queries,
                 lastEvent>>
vars == <<now, ticks, requestTimestamps, checks, inflight, fetchCalls, queries, lastEvent,
          isPluginActive, isTranslationSent, shortcuts, storage, selection, tasks,
          awaiting, retranslating, popups, sent, episode, pageEvent>>

\* ------------------------------------------------------------------------
\* canMakeRequest (src/api.js:9-22)

\* line 12: requestTimestamps.filter(ts => now - ts < TIME_WINDOW)
PruneNone(ts, t) == ts
PruneWhole(ts, t) == IF ts # <<>> /\ t - ts[1] >= TIME_WINDOW THEN <<>> ELSE ts
PruneBad(ts, t) == SelectSeq(ts, LAMBDA x : t - x <= TIME_WINDOW)
Prune(ts, t) == SelectSeq(ts, LAMBDA x : t - x < TIME_WINDOW)

\* line 20: Math.ceil((TIME_WINDOW - (now - oldestTimestamp)) / 1000)
WaitTimeBad(oldest, t) == (TIME_WINDOW - (t - oldest)) \div 1000
WaitTime(oldest, t) == MathCeil(TIME_WINDOW - (t - oldest), 1000)

\* The value returned and the new value of requestTimestamps.
canMakeRequestPrepends(ts, t) ==
    LET kept == Prune(ts, t) IN
    IF Len(kept) < RATE_LIMIT
    THEN [timestamps |-> <<t>> \o kept, result |-> [isAllowed |-> TRUE]]
    ELSE [timestamps |-> kept,
          result |-> [isAllowed |-> FALSE, waitTime |-> WaitTime(kept[1], t)]]
canMakeRequestNoAppend(ts, t) ==
    LET kept == Prune(ts, t) IN
    IF Len(kept) < RATE_LIMIT
    THEN [timestamps |-> kept, result |-> [isAllowed |-> TRUE]]
    ELSE [timestamps |-> kept,
          result |-> [isAllowed |-> FALSE, waitTime |-> WaitTime(kept[1], t)]]
canMakeRequestBad(ts, t) ==
    LET kept == Prune(ts, t) IN
    IF Len(kept) <= RATE_LIMIT
    THEN [timestamps |-> Append(kept, t), result |-> [isAllowed |-> TRUE]]
    ELSE [timestamps |-> kept,
          result |-> [isAllowed |-> FALSE, waitTime |-> WaitTime(kept[1], t)]]
canMakeRequest(ts, t) ==
    LET kept == Prune(ts, t) IN
    IF Len(kept) < RATE_LIMIT
    THEN [timestamps |-> Append(kept, t), result |-> [isAllowed |-> TRUE]]
    ELSE [timestamps |-> kept,
          result |-> [isAllowed |-> FALSE, waitTime |-> WaitTime(kept[1], t)]]

\* ------------------------------------------------------------------------
\* sendRateLimitUpdate (src/api.js:27-52): the values computed at lines 28-31
\* and the message built at lines 37-41.
RateLimitStatusRaw(ts, t) ==
    LET remainingRequests == RATE_LIMIT - Len(ts)
        waitTime == IF Len(ts) > 0 /\ TruthyNum(ts[1])
                    THEN WaitTime(ts[1], t)
                    ELSE 0
    IN [action |-> "rateLimitUpdate",
        remainingRequests |-> remainingRequests,
        waitTime |-> Some(waitTime)]
RateLimitStatus(ts, t) ==
    LET remainingRequests == RATE_LIMIT - Len(ts)
        waitTime == IF Len(ts) > 0 /\ TruthyNum(ts[1])
                    THEN WaitTime(ts[1], t)
                    ELSE 0
    IN [action |-> "rateLimitUpdate",
        remainingRequests |-> remainingRequests,
        waitTime |-> IF waitTime > 0 THEN Some(waitTime) ELSE None]

\* ------------------------------------------------------------------------
\* Messages and transport outcomes

\* message.action of an inbound message
Actions == {"translate", "testConnection", "updatePluginStatus",
            "rateLimitUpdate", "showMessage"}

\* what chrome.runtime.sendMessage does with an advisory notification:
\* delivers it, reports chrome.runtime.lastError to the callback, or throws
Deliveries == {"delivered", "lastError", "throws"}
SendMessageError == [text |-> "Extension context invalidated."]

\* HTTP status codes the backend answers with, and response.ok
Statuses == {200, 429, 500}
Ok(status) == status >= 200 /\ status <= 299

\* how the promise returned by fetch settles
FetchOutcomes ==
    {[settle |-> "reject", error |-> [text |-> "Failed to fetch"]]}
    \cup {[settle |-> "resolve", status |-> s] : s \in Statuses}

\* how response.json() settles: a SyntaxError, the value null, or an object
\* with the fields the code reads; status is data.response?.status
Bodies ==
    {[parse |-> "error"], [parse |-> "null"]}
    \cup {[parse |-> "object", translatedText |-> tt, error |-> e,
           status |-> Undefined] :
            tt \in {Undefined, "", "Hola"}, e \in {Undefined, "Invalid API key"}}
    \cup {[parse |-> "object", translatedText |-> "Hola", error |-> Undefined,
           status |-> "OK"]}

JsonSyntaxError == [text |-> "Unexpected token < in JSON at position 0"]
NullTypeError == [text |-> "Cannot read properties of null"]

\* a settled promise
Fulfilled(v) == [state |-> "fulfilled", value |-> v]
Rejected(e) == [state |-> "rejected", reason |-> e]
Awaiting == [state |-> "pending"]

\* line 65: the kinds of message that pass through the admission gate
Gated(action) == action # "rateLimitUpdate" /\ action # "showMessage"

\* lines 69-72, 78-82: the notification and the response of a denial
RateLimitMessage(waitTime) ==
    [text |-> "Rate limit exceeded. Please wait ${waitTime} seconds and try again.",
     waitTime |-> waitTime]
ShowMessage(message) == [action |-> "showMessage", message |-> message, type |-> "error"]

\* lines 68-90: the response sent for a denied message
DenialResponse(waitTime, delivery) ==
    IF delivery # "throws"
    THEN [error |-> [message |-> RateLimitMessage(waitTime)]]
    ELSE [error |-> [message |-> [text |-> "Rate limit error: ${error.message}",
                                  cause |-> SendMessageError]]]

\* ------------------------------------------------------------------------
\* translateText (src/api.js:169-192)

\* lines 170-183: after the fetch promise settles
translateTextAfterFetch(outcome) ==
    IF outcome.settle = "reject" THEN Rejected(outcome.error) ELSE Awaiting

\* lines 185-191: after response.json() settles
translateTextAfterJson(body) ==
    IF body.parse = "error" THEN Rejected(JsonSyntaxError)
    ELSE IF body.parse = "null" THEN Rejected(NullTypeError)
    ELSE IF TruthyStr(body.error) THEN Rejected([text |-> body.error])
    ELSE Fulfilled(body.translatedText)

\* lines 97-116: the response the listener sends when translateText settles
TranslateResponse(promise, delivery) ==
    IF promise.state = "fulfilled"
    THEN [translatedText |-> promise.value]
    ELSE IF delivery # "throws"
    THEN [error |-> [message |-> IF TruthyStr(promise.reason.text)
                                 THEN promise.reason
                                 ELSE [text |-> "Translation error"]]]
    ELSE [error |-> [message |-> [text |-> "Translation error: ${err.message}",
                                  cause |-> SendMessageError]]]

\* ------------------------------------------------------------------------
\* testConnection (src/api.js:200-232)

HttpErrorMessage(status) == [text |-> "HTTP error! Status: ${response.status}",
                             status |-> status]

\* lines 201-220, 229-231: after the fetch promise settles
testConnectionAfterFetchNoCatch(outcome) ==
    IF outcome.settle = "reject"
    THEN Rejected(outcome.error)
    ELSE IF ~Ok(outcome.status)
    THEN Rejected(HttpErrorMessage(outcome.status))
    ELSE Awaiting
testConnectionAfterFetch(outcome) ==
    IF outcome.settle = "reject"
    THEN Fulfilled([success |-> FALSE, message |-> outcome.error])
    ELSE IF ~Ok(outcome.status)
    THEN Fulfilled([success |-> FALSE, message |-> HttpErrorMessage(outcome.status)])
    ELSE Awaiting

\* lines 219-231: after response.json() settles
testConnectionAfterJson(body) ==
    IF body.parse = "error"
    THEN Fulfilled([success |-> FALSE, message |-> JsonSyntaxError])
    ELSE IF body.parse = "null"
    THEN Fulfilled([success |-> FALSE, message |-> NullTypeError])
    ELSE IF TruthyStr(body.translatedText)
    THEN Fulfilled([success |-> TRUE,
                    message |-> [text |-> "Success ${statusMessage}",
                                 statusMessage |-> IF TruthyStr(body.status)
                                                   THEN body.status
                                                   ELSE "Successfully"]])
    ELSE Fulfilled([success |-> FALSE,
                    message |-> [text |-> IF TruthyStr(body.error)
                                          THEN body.error
                                          ELSE "Unknown API error"]])

\* lines 122-156: the response the listener sends when testConnection settles
TestConnectionResponse(promise, delivery) ==
    IF promise.state = "fulfilled"
    THEN promise.value
    ELSE IF delivery # "throws"
    THEN [success |-> FALSE, message |-> promise.reason]
    ELSE [success |-> FALSE,
          message |-> [text |-> "Test connection error: ${err.message}",
                       cause |-> SendMessageError]]

\* ------------------------------------------------------------------------
\* State after the background script has been loaded (src/api.js:1-3, 55)
ServiceInit ==
    /\ now = StartTime
    /\ ticks = 0
    /\ requestTimestamps = <<>>
    /\ checks = <<>>
    /\ inflight = EmptyBag
    /\ fetchCalls = 0
    /\ queries = <<>>
    /\ lastEvent = [op |-> "init"]

\* chrome.storage.local of a fresh installation: no key is set
FreshStorage == [isPluginActive |-> None, apiUrl |-> "", apiKey |-> "", shortcuts |-> None]

\* this.state.shortcuts as set by the constructor (src/render.js:25-30)
Shortcuts == [activate |-> "A", deactivate |-> "K", testConnection |-> "T",
              toggle |-> "G"]

\* History of the page since the last selectionchange event: the translate
\* intents sent since then, the intents of earlier selections that still
\* await their response, and whether a translation requested for the current
\* selection has been shown.  Kept by ContentSpec.
NoEpisode == [sent |-> 0, stale |-> 0, delivered |-> FALSE]

\* State after new TranslationManager() with chrome.storage.local = st
\* (src/render.js:14-61): the callback of loadState has not run yet.
PageInit(st) ==
    /\ isPluginActive = FALSE
    /\ isTranslationSent = FALSE
    /\ shortcuts = Shortcuts
    /\ storage = st
    /\ selection = ""
    /\ tasks = <<[kind |-> "loadState"]>>
    /\ awaiting = 0
    /\ retranslating = 0
    /\ popups = 0
    /\ sent = 0
    /\ episode = NoEpisode
    /\ pageEvent = [op |-> "init"]

Init == ServiceInit /\ PageInit(FreshStorage)

\* Date.now() advances between two events.
Advance(d) ==
    /\ ticks < MaxTicks
    /\ now' = now + d
    /\ ticks' = ticks + 1
    /\ lastEvent' = [op |-> "advance", at |-> now + d]
    /\ UNCHANGED <<requestTimestamps, checks, inflight, fetchCalls, queries>>
    /\ UNCHANGED pageVars

\* ------------------------------------------------------------------------
\* chrome.runtime.onMessage listener (src/api.js:63-159), run for one inbound
\* message up to its return.  delivery is what chrome.runtime.sendMessage
\* does if the listener sends a showMessage notification.

\* line 91: the listener returns after answering a denied message, so the
\* branches of lines 95 and 120 are not reached
FallsThroughOnDenial == FALSE
ReturnsOnDenial == TRUE

\* the fields of a translate / testConnection message the listener reads
\* (lines 96, 121)
\* a message of the given kind with every field filled in
WellFormed(action) ==
    [action |-> action, text |-> "Hello world",
     apiUrl |-> "https://libretranslate.com/translate", apiKey |-> "key",
     targetLanguage |-> "es"]

\* translate and testConnection messages: well formed, or with one of the
\* four fields empty
Requests ==
    UNION {{WellFormed(a),
            [WellFormed(a) EXCEPT !.text = ""],
            [WellFormed(a) EXCEPT !.targetLanguage = ""],
            [WellFormed(a) EXCEPT !.apiUrl = ""],
            [WellFormed(a) EXCEPT !.apiKey = ""]} :
           a \in {"translate", "testConnection"}}

\* the URL and the form body of the fetch call for a message: translateText
\* (lines 170-183) and testConnection (lines 201-214)
PayloadOfMessage(message) ==
    [url |-> message.apiUrl, q |-> message.text, source |-> "auto",
     api_key |-> message.apiKey, target |-> message.targetLanguage,
     format |-> "text"]
Payload(message) ==
    IF message.action = "translate"
    THEN [url |-> message.apiUrl, q |-> message.text, source |-> "auto",
          api_key |-> message.apiKey, target |-> message.targetLanguage,
          format |-> "text"]
    ELSE [url |-> message.apiUrl, q |-> "Hello", source |-> "en",
          api_key |-> message.apiKey, target |-> "es", format |-> "text"]

OnRequest(message, delivery) ==
    LET action == message.action
        gate == canMakeRequest(requestTimestamps, now)
        denied == Gated(action) /\ ~gate.result.isAllowed
        \* translateText and testConnection call fetch before their first await
        egress == /\ action \in {"translate", "testConnection"}
                  /\ ~(denied /\ ReturnsOnDenial)
    IN
    /\ Gated(action) => Len(checks) < MaxLog
    /\ egress => BagCardinality(inflight) < MaxInflight
    \* lines 65-66
    /\ IF Gated(action)
       THEN /\ requestTimestamps' = gate.timestamps
            /\ checks' = Append(checks, [t |-> now, result |-> gate.result])
       ELSE UNCHANGED <<requestTimestamps, checks>>
    \* lines 95-96, 120-121
    /\ IF egress
       THEN /\ fetchCalls' = fetchCalls + 1
            /\ inflight' = inflight (+) SetToBag({[action |-> action, pc |-> "fetch"]})
       ELSE UNCHANGED <<fetchCalls, inflight>>
    /\ lastEvent' =
         [op |-> "onMessage", action |-> action, at |-> now, prev |-> lastEvent.op,
          check |-> IF Gated(action) THEN Some(gate.result) ELSE None,
          fetched |-> egress,
          message |-> message,
          payload |-> IF egress THEN Some(Payload(message)) ELSE None,
          notified |-> IF denied /\ delivery # "throws"
                       THEN Some(ShowMessage(RateLimitMessage(gate.result.waitTime)))
                       ELSE None,
          response |-> IF denied
                       THEN Some(DenialResponse(gate.result.waitTime, delivery))
                       ELSE None]
    /\ UNCHANGED <<now, ticks, queries>>
    /\ UNCHANGED pageVars

\* the listener run for a message of the given kind with every field filled in
OnMessage(action, delivery) == OnRequest(WellFormed(action), delivery)

\* ------------------------------------------------------------------------
\* Continuations of an admitted intent.

\* the promise of intent r after its fetch promise settled with outcome
AfterFetch(r, outcome) ==
    IF r.action = "translate"
    THEN translateTextAfterFetch(outcome)
    ELSE testConnectionAfterFetch(outcome)

\* the promise of intent r after response.json() settled with body
AfterJson(r, body) ==
    IF r.action = "translate"
    THEN translateTextAfterJson(body)
    ELSE testConnectionAfterJson(body)

\* the response the listener sends once the promise of intent r has settled
ResponseOf(r, promise, delivery) ==
    IF r.action = "translate"
    THEN TranslateResponse(promise, delivery)
    ELSE TestConnectionResponse(promise, delivery)

\* whether the listener notifies: translate on rejection (line 100),
\* testConnection on !result.success (line 123) or rejection (line 140)
Failed(r, promise) ==
    IF r.action = "translate"
    THEN promise.state = "rejected"
    ELSE promise.state = "rejected" \/ ~promise.value.success

\* the notification sent with a response (lines 101-110, 123-136, 141-150)
Notification(response, failed, delivery) ==
    IF failed /\ delivery # "throws"
    THEN Some(ShowMessage(IF "error" \in DOMAIN response
                          THEN response.error.message
                          ELSE response.message))
    ELSE None

\* the listener's .then / .catch callbacks, run when the promise has settled
RespondOnlyWarns(r, promise, fetchOutcome, body, delivery) ==
    LET response == ResponseOf(r, promise, delivery) IN
    /\ inflight' = inflight (-) SetToBag({r})
    /\ lastEvent' =
         [op |-> "settled", action |-> r.action, at |-> now,
          fetch |-> fetchOutcome, body |-> body,
          promise |-> promise.state,
          notified |-> Notification(response, Failed(r, promise), delivery),
          response |-> IF Failed(r, promise) /\ delivery = "throws"
                       THEN None
                       ELSE Some(response)]
Respond(r, promise, fetchOutcome, body, delivery) ==
    LET response == ResponseOf(r, promise, delivery) IN
    /\ inflight' = inflight (-) SetToBag({r})
    /\ lastEvent' =
         [op |-> "settled", action |-> r.action, at |-> now,
          fetch |-> fetchOutcome, body |-> body,
          promise |-> promise.state,
          notified |-> Notification(response, Failed(r, promise), delivery),
          response |-> Some(response)]

\* the fetch promise of intent r settles (await at line 170, .then at 215)
FetchSettles(r, outcome, delivery) ==
    /\ r.pc = "fetch"
    /\ LET promise == AfterFetch(r, outcome) IN
       IF promise.state = "pending"
       THEN /\ inflight' = (inflight (-) SetToBag({r}))
                           (+) SetToBag({[action |-> r.action, pc |-> "json",
                                          fetch |-> outcome]})
            /\ lastEvent' = [op |-> "fetchResolved", action |-> r.action, at |-> now]
       ELSE Respond(r, promise, outcome, None, delivery)
    /\ UNCHANGED <<now, ticks, requestTimestamps, checks, fetchCalls, queries>>
    /\ UNCHANGED pageVars

\* response.json() of intent r settles (await at line 185, .then at 221)
JsonSettles(r, body, delivery) ==
    /\ r.pc = "json"
    /\ Respond(r, AfterJson(r, body), r.fetch, Some(body), delivery)
    /\ UNCHANGED <<now, ticks, requestTimestamps, checks, fetchCalls, queries>>
    /\ UNCHANGED pageVars

\* ------------------------------------------------------------------------
\* setInterval(sendRateLimitUpdate, 1000) (src/api.js:27-55) runs in two steps.
\* When the timer fires, lines 28-31 compute the values and line 34 hands the
\* callback to chrome.tabs.query; the callback (lines 35-50) runs later, after
\* any other event, and uses only the values computed then.
SendRateLimitUpdateWhileQuota ==
    /\ Len(requestTimestamps) < RATE_LIMIT
    /\ Len(queries) < MaxQueries
    /\ queries' = Append(queries, RateLimitStatus(requestTimestamps, now))
    /\ lastEvent' = [op |-> "timerFired", at |-> now,
                     status |-> RateLimitStatus(requestTimestamps, now)]
    /\ UNCHANGED <<now, ticks, requestTimestamps, checks, inflight, fetchCalls>>
    /\ UNCHANGED pageVars
SendRateLimitUpdateAppends ==
    /\ Len(queries) < MaxQueries
    /\ queries' = Append(queries, RateLimitStatus(requestTimestamps, now))
    /\ lastEvent' = [op |-> "timerFired", at |-> now,
                     status |-> RateLimitStatus(requestTimestamps, now)]
    /\ requestTimestamps' = Append(requestTimestamps, now)
    /\ UNCHANGED <<now, ticks, checks, inflight, fetchCalls>>
    /\ UNCHANGED pageVars

\* lines 28-34: the timer fires
SendRateLimitUpdate ==
    /\ Len(queries) < MaxQueries
    /\ queries' = Append(queries, RateLimitStatus(requestTimestamps, now))
    /\ lastEvent' = [op |-> "timerFired", at |-> now,
                     status |-> RateLimitStatus(requestTimestamps, now)]
    /\ UNCHANGED <<now, ticks, requestTimestamps, checks, inflight, fetchCalls>>
    /\ UNCHANGED pageVars

\* what chrome.tabs.query passes to its callback: nothing when the query
\* failed (tabs is undefined), or an array of the given length
TabsResults == {None, Some(0), Some(1)}
TabsTypeError == [text |-> "Cannot read properties of undefined (reading 'length')"]

\* lines 35-50: the callback of chrome.tabs.query runs.  at and status are the
\* values of lines 28-31; sent: chrome.runtime.sendMessage was called and did
\* not throw; raised: the exception that leaves the callback, the TypeError of
\* tabs.length at line 35 (outside the try), never the one caught at line 47.
TabsQueryCallback(tabs, delivery) ==
    /\ queries # <<>>
    /\ queries' = Tail(queries)
    /\ lastEvent' = [op |-> "rateLimitUpdate", status |-> Head(queries),
                     tabs |-> tabs,
                     sent |-> tabs # None /\ tabs[1] > 0 /\ delivery # "throws",
                     raised |-> IF tabs = None THEN Some(TabsTypeError) ELSE None]
    /\ UNCHANGED <<now, ticks, requestTimestamps, checks, inflight, fetchCalls>>
    /\ UNCHANGED pageVars

\* ------------------------------------------------------------------------
\* PopupManager.testConnection of the settings popup that tests the API itself
\* (src/unnamed/part_002:314-330 calling ApiTest.testConnection, 341-355): with
\* both fields filled in it calls fetch from the popup; the rest of the
\* handler shows an alert and changes no state of the background service.
PopupTestConnection(configured) ==
    /\ lastEvent' = [op |-> "popupTest", at |-> now, fetched |-> configured,
                     check |-> None]
    /\ UNCHANGED <<now, ticks, requestTimestamps, checks, inflight, fetchCalls, queries>>
    /\ UNCHANGED pageVars

\* ------------------------------------------------------------------------
\* The request governor: messages of every kind arrive, admitted intents
\* settle in any order, the popup tests the API.  (The broadcaster, which
\* only reads the window, runs in StatusSpec and TimerSpec.)
Receive ==
    \E a \in Actions, dl \in Deliveries :
        /\ Len(checks) < MaxIntents
        /\ OnMessage(a, dl)
FetchDone ==
    \E r \in BagToSet(inflight), o \in FetchOutcomes, dl \in Deliveries :
        FetchSettles(r, o, dl)
JsonDone ==
    \E r \in BagToSet(inflight), b \in Bodies, dl \in Deliveries :
        JsonSettles(r, b, dl)
TimerFires == SendRateLimitUpdate
Broadcast ==
    \E tabs \in TabsResults, dl \in Deliveries : TabsQueryCallback(tabs, dl)
PopupTest ==
    \E c \in BOOLEAN : PopupTestConnection(c)

Next == Receive \/ FetchDone \/ JsonDone \/ PopupTest

Spec == Init /\ [][Next]_vars

\* ------------------------------------------------------------------------
\* The rate limiter over time: the clock advances and messages that start
\* no transport call pass through the listener's gate.
Tick == \E d \in Steps : Advance(d)
ReceiveLocal ==
    \E a \in Actions \ {"translate", "testConnection"}, dl \in Deliveries :
        /\ Gated(a) => Len(checks) < MaxChecks
        /\ OnMessage(a, dl)

LimiterNext == Tick \/ ReceiveLocal

LimiterSpec == Init /\ [][LimiterNext]_vars

\* ------------------------------------------------------------------------
\* The broadcaster over time: the clock advances, gated messages fill the
\* window, the timer fires and the chrome.tabs.query callbacks run, with any
\* of the other events in between.
StatusSteps == {1, TIME_WINDOW, 2 * TIME_WINDOW}
StatusTick ==
    \E d \in StatusSteps :
        /\ ticks < MaxStatusTicks
        /\ Advance(d)
ReceiveStatus ==
    /\ Len(checks) < MaxStatusChecks
    /\ OnMessage("updatePluginStatus", "delivered")

StatusNext == StatusTick \/ ReceiveStatus \/ TimerFires \/ Broadcast

StatusSpec == Init /\ [][StatusNext]_vars

\* ========================================================================
\* The content script of a page: TranslationManager (src/render.js)

\* the shortcuts of the settings popup when it saves: the defaults, or
\* Activate changed to X (src/unnamed/part_002:229-234)
PopupShortcuts == {Shortcuts, [Shortcuts EXCEPT !.activate = "X"]}

\* { ...current, ...stored } (lines 73, 108): the keys of stored replace
\* those of current
MergeShortcuts(current, stored) ==
    [k \in DOMAIN current |-> IF k \in DOMAIN stored THEN stored[k] ELSE current[k]]

\* event.key of the keydown events of the model, and String.toUpperCase on them
Keys == {"a", "K", "g", "t", "x"}
ToUpperCase(key) ==
    CASE key = "a" -> "A"
      [] key = "g" -> "G"
      [] key = "t" -> "T"
      [] key = "x" -> "X"
      [] OTHER -> key

\* window.getSelection().toString() of the model, and String.trim on them
Selections == {"", "  ", " Hello "}
Trim(text) ==
    CASE text = "  " -> ""
      [] text = " Hello " -> "Hello"
      [] OTHER -> text

\* popup.dataset.originalText of a translation popup (line 266): the text of
\* the intent it answers, which is the one non-empty trimmed selection
PopupText == Trim(" Hello ")

\* the language chosen in the selector of a translation popup
Languages == {"fr"}

\* contents of chrome.storage.local when the page is loaded.  Storages: the
\* settings popup has saved once (saveSettings writes isPluginActive and the
\* shortcuts, here the defaults), with any plugin state and any API settings
\* written since.  ShortcutStorages: any plugin state, no API settings, and
\* no shortcuts or Activate stored as X.
ApiUrls == {"", "https://libretranslate.com/translate"}
ApiKeys == {"", "key"}
StoredShortcuts == {None, Some([activate |-> "X"])}
Storages ==
    [isPluginActive : {Some(TRUE), Some(FALSE)}, apiUrl : ApiUrls,
     apiKey : ApiKeys, shortcuts : {Some(Shortcuts)}]
ShortcutStorages ==
    [isPluginActive : {None, Some(TRUE), Some(FALSE)}, apiUrl : {""},
     apiKey : {""}, shortcuts : StoredShortcuts]

\* result.isPluginActive || false (line 70)
StoredActive(st) == IF st.isPluginActive = None THEN FALSE ELSE st.isPluginActive[1]

\* the case of the switch at lines 132-147 that event.key selects, the first
\* whose shortcut equals the key in upper case
Shortcut(key) ==
    LET k == ToUpperCase(key) IN
    IF k = shortcuts.activate THEN "activate"
    ELSE IF k = shortcuts.deactivate THEN "deactivate"
    ELSE IF k = shortcuts.testConnection THEN "testConnection"
    ELSE IF k = shortcuts.toggle THEN "toggle"
    ELSE "none"

\* line 430: the new value of this.state.isPluginActive; forceState is None
\* for null (the default of the parameter)
togglePluginStatusTruthy(active, forceState) ==
    IF forceState # None /\ forceState[1] THEN forceState[1] ELSE ~active
togglePluginStatus(active, forceState) ==
    IF forceState # None THEN forceState[1] ELSE ~active

\* the keydown listener (lines 129-150) with togglePluginStatus (429-438) up
\* to the call of chrome.storage.local.set
KeyDown(altKey, key) ==
    LET shortcut == IF altKey THEN Shortcut(key) ELSE "none"
        toggles == shortcut \in {"activate", "deactivate", "toggle"}
        forceState == IF shortcut = "activate" THEN Some(TRUE)
                      ELSE IF shortcut = "deactivate" THEN Some(FALSE)
                      ELSE None
        after == IF toggles
                 THEN togglePluginStatus(isPluginActive, forceState)
                 ELSE isPluginActive
    IN
    /\ toggles => Len(tasks) < MaxTasks
    /\ isPluginActive' = after
    /\ tasks' = IF toggles
                THEN Append(tasks, [kind |-> "set", value |-> after])
                ELSE tasks
    /\ pageEvent' = [op |-> "keydown", altKey |-> altKey, key |-> key,
                     shortcut |-> shortcut,
                     before |-> isPluginActive, after |-> after,
                     prev |-> IF pageEvent.op = "keydown"
                              THEN pageEvent.shortcut ELSE "none"]
    /\ UNCHANGED <<isTranslationSent, storage, shortcuts, selection, awaiting,
                   retranslating, popups, sent>>
    /\ UNCHANGED serviceVars

\* the callback of chrome.storage.local.get in loadState (lines 68-80)
LoadStateDone ==
    /\ tasks # <<>>
    /\ Head(tasks).kind = "loadState"
    /\ isPluginActive' = StoredActive(storage)
    /\ shortcuts' = IF storage.shortcuts # None
                    THEN MergeShortcuts(shortcuts, storage.shortcuts[1])
                    ELSE shortcuts
    /\ tasks' = Tail(tasks)
    /\ pageEvent' = [op |-> "loadState", active |-> StoredActive(storage)]
    /\ UNCHANGED <<isTranslationSent, storage, selection, awaiting,
                   retranslating, popups, sent>>
    /\ UNCHANGED serviceVars

\* The changes object of chrome.storage.onChanged for a write that replaces
\* the stored isPluginActive and shortcuts (None: the key is not written):
\* it holds the keys whose stored value becomes a different one.
NoChanges == [isPluginActive |-> None, shortcuts |-> None]
ChangesOf(st, active, sc) ==
    [isPluginActive |-> IF active # None /\ st.isPluginActive # active
                        THEN active ELSE None,
     shortcuts |-> IF sc # None /\ st.shortcuts # sc THEN sc ELSE None]

\* storage.onChanged is dispatched when the write completes, before the
\* callbacks of the storage calls that are still pending and after the
\* changes dispatched earlier
RECURSIVE Dispatch(_, _)
Dispatch(queue, changes) ==
    IF changes = NoChanges THEN queue
    ELSE IF queue # <<>> /\ Head(queue).kind = "changed"
    THEN <<Head(queue)>> \o Dispatch(Tail(queue), changes)
    ELSE <<[kind |-> "changed", changes |-> changes]>> \o queue

\* chrome.storage.local.set of the page completes.  For togglePluginStatus
\* (lines 431-437) the value is stored, or the write fails with
\* chrome.runtime.lastError.  For retranslateText (lines 365-369) the language
\* is stored, which changes nothing this model keeps, or the write fails and
\* the callback throws.
StorageSetDone(outcome) ==
    /\ tasks # <<>>
    /\ Head(tasks).kind \in {"set", "setLanguage"}
    /\ IF Head(tasks).kind = "set"
       THEN LET value == Head(tasks).value
                stored == outcome = "stored"
            IN
            /\ storage' = IF stored
                          THEN [storage EXCEPT !.isPluginActive = Some(value)]
                          ELSE storage
            /\ tasks' = IF stored
                        THEN Dispatch(Tail(tasks), ChangesOf(storage, Some(value), None))
                        ELSE Tail(tasks)
            /\ pageEvent' = [op |-> "setDone", value |-> value, outcome |-> outcome]
       ELSE /\ tasks' = Tail(tasks)
            /\ pageEvent' = [op |-> "setLanguageDone", language |-> Head(tasks).language,
                             outcome |-> outcome, threw |-> outcome = "lastError"]
            /\ UNCHANGED storage
    /\ UNCHANGED <<isPluginActive, isTranslationSent, shortcuts, selection, awaiting,
                   retranslating, popups, sent>>
    /\ UNCHANGED serviceVars

\* handleStorageChanges (lines 100-110) for a change of isPluginActive, of
\* shortcuts, or of both
StorageChanged ==
    /\ tasks # <<>>
    /\ Head(tasks).kind = "changed"
    /\ LET changes == Head(tasks).changes IN
       /\ isPluginActive' = IF changes.isPluginActive # None
                            THEN changes.isPluginActive[1]
                            ELSE isPluginActive
       /\ shortcuts' = IF changes.shortcuts # None
                       THEN MergeShortcuts(shortcuts, changes.shortcuts[1])
                       ELSE shortcuts
       /\ pageEvent' = [op |-> "changed", changes |-> changes]
    /\ tasks' = Tail(tasks)
    /\ UNCHANGED <<isTranslationSent, storage, selection, awaiting,
                   retranslating, popups, sent>>
    /\ UNCHANGED serviceVars

\* PopupManager.saveSettings of the settings popup (src/unnamed/part_002:
\* 266-292, part_003:110-128), taken when its chrome.storage.local.set
\* completes: with both API fields filled in it writes them together with the
\* popup's own isPluginActive and shortcuts; with one empty it writes nothing
PopupSaveSettings(apiUrl, apiKey, active, sc) ==
    LET writes == TruthyStr(apiUrl) /\ TruthyStr(apiKey)
        changes == ChangesOf(storage, Some(active), Some(sc))
    IN
    /\ (writes /\ changes # NoChanges) => Len(tasks) < MaxTasks
    /\ storage' = IF writes
                  THEN [isPluginActive |-> Some(active), apiUrl |-> apiUrl,
                        apiKey |-> apiKey, shortcuts |-> Some(sc)]
                  ELSE storage
    /\ tasks' = IF writes THEN Dispatch(tasks, changes) ELSE tasks
    /\ pageEvent' = [op |-> "popupSave", writes |-> writes]
    /\ UNCHANGED <<isPluginActive, isTranslationSent, shortcuts, selection, awaiting,
                   retranslating, popups, sent>>
    /\ UNCHANGED serviceVars

\* PopupManager.togglePluginStatus of the settings popup (part_002:294-305,
\* part_003:130-140), taken when its chrome.storage.local.set completes
PopupTogglePluginStatus(active) ==
    LET changes == ChangesOf(storage, Some(active), None) IN
    /\ changes # NoChanges => Len(tasks) < MaxTasks
    /\ storage' = [storage EXCEPT !.isPluginActive = Some(active)]
    /\ tasks' = Dispatch(tasks, changes)
    /\ pageEvent' = [op |-> "popupToggle", value |-> active]
    /\ UNCHANGED <<isPluginActive, isTranslationSent, shortcuts, selection, awaiting,
                   retranslating, popups, sent>>
    /\ UNCHANGED serviceVars

\* the click listener of the save button of src/popup.js (lines 9-17), taken
\* when its chrome.storage.local.set completes: apiUrl and apiKey are written
\* as typed, empty or not; the page keeps no state that follows these keys
PopupSaveButton(apiUrl, apiKey) ==
    /\ storage' = [storage EXCEPT !.apiUrl = apiUrl, !.apiKey = apiKey]
    /\ pageEvent' = [op |-> "popupSaveButton"]
    /\ UNCHANGED <<isPluginActive, isTranslationSent, shortcuts, selection, tasks,
                   awaiting, retranslating, popups, sent>>
    /\ UNCHANGED serviceVars

\* handleMessages (lines 116-124): only updatePluginStatus changes the state
PageMessages ==
    {[action |-> "updatePluginStatus", isActive |-> b] : b \in BOOLEAN}
    \cup {[action |-> "showMessage"], [action |-> "rateLimitUpdate"]}
HandleMessages(message) ==
    /\ isPluginActive' = IF message.action = "updatePluginStatus"
                         THEN message.isActive
                         ELSE isPluginActive
    /\ pageEvent' = [op |-> "message", message |-> message]
    /\ UNCHANGED <<isTranslationSent, storage, shortcuts, selection, tasks, awaiting,
                   retranslating, popups, sent>>
    /\ UNCHANGED serviceVars

\* updateRateLimitInfo (lines 609-619) as a function of whether the
\* rate-limit popup is shown (this.rateLimitPopup exists with display
\* 'block') and of message.waitTime: AutoHides is the branch of lines 611-613
\* that calls hideRateLimitPopup, the result is whether the popup is shown
\* afterwards.
AutoHides(waitTime) == waitTime # None /\ waitTime[1] <= 0
updateRateLimitInfo(shown, waitTime) ==
    IF ~shown THEN shown
    ELSE IF AutoHides(waitTime) THEN FALSE
    ELSE shown

\* the selectionchange listener (lines 86-88), the selection becoming text
SelectionChange(text) ==
    /\ selection' = text
    /\ isTranslationSent' = FALSE
    /\ pageEvent' = [op |-> "selectionchange", text |-> text]
    /\ UNCHANGED <<isPluginActive, storage, shortcuts, tasks, awaiting,
                   retranslating, popups, sent>>
    /\ UNCHANGED serviceVars

\* handleTextSelection (lines 155-169) up to its await: whether it goes on to
\* read the configuration
ReadsConfiguration(active, text, translationSent) ==
    /\ active
    /\ ~(Trim(text) = "" \/ translationSent)

\* what the call of chrome.storage.local.get in getConfiguration does
\* (lines 177-196): it returns and calls back later, or it throws, and then
\* the promise is rejected before the caller resumes
GetCalls == {"pending", "throws"}

\* the mouseup listener (line 89): handleTextSelection up to its await and,
\* when chrome.storage.local.get threw, its catch (lines 166-168), which runs
\* in the same task and shows an error popup
MouseUp(get) ==
    LET reads == ReadsConfiguration(isPluginActive, selection, isTranslationSent) IN
    /\ reads => (Len(tasks) < MaxTasks /\ sent < MaxSends)
    /\ ~reads => get = "pending"
    /\ tasks' = IF reads /\ get = "pending"
                THEN Append(tasks, [kind |-> "getConfiguration",
                                    origin |-> "selection",
                                    text |-> Trim(selection),
                                    active |-> isPluginActive])
                ELSE tasks
    /\ pageEvent' = [op |-> "mouseup", active |-> isPluginActive,
                     text |-> selection, reads |-> reads,
                     outcome |-> IF reads THEN get ELSE "none"]
    /\ UNCHANGED <<isPluginActive, isTranslationSent, storage, shortcuts, selection,
                   awaiting, retranslating, popups, sent>>
    /\ UNCHANGED serviceVars

\* the change listener of the language selector of a translation popup
\* (lines 242-251): retranslateText (lines 360-390) up to its await, with no
\* test of isPluginActive or isTranslationSent; when chrome.storage.local.get
\* threw, the listener's catch writes the error into the popup
LanguageChange(language, get) ==
    /\ popups > 0
    /\ Len(tasks) < MaxTasks
    /\ sent < MaxSends
    /\ tasks' = IF get = "pending"
                THEN Append(tasks, [kind |-> "getConfiguration",
                                    origin |-> "retranslate",
                                    text |-> PopupText,
                                    language |-> language])
                ELSE tasks
    /\ pageEvent' = [op |-> "languageChange", language |-> language, outcome |-> get]
    /\ UNCHANGED <<isPluginActive, isTranslationSent, storage, shortcuts, selection,
                   awaiting, retranslating, popups, sent>>
    /\ UNCHANGED serviceVars

\* the callback of chrome.storage.local.get in getConfiguration (lines
\* 179-191) runs and the caller resumes: outcome is a result or
\* chrome.runtime.lastError, delivery what chrome.runtime.sendMessage does.
\* handleTextSelection (lines 160-168) sends through sendTranslationRequest
\* (207-219) when apiUrl and apiKey are set.  retranslateText (lines 363-382)
\* calls chrome.storage.local.set with the language and then sends, whatever
\* the configuration holds.
GetOutcomes == {"result", "lastError"}
ConfigurationDone(outcome, delivery) ==
    /\ tasks # <<>>
    /\ Head(tasks).kind = "getConfiguration"
    /\ IF Head(tasks).origin = "selection"
       THEN LET configured == /\ outcome = "result"
                              /\ TruthyStr(storage.apiUrl)
                              /\ TruthyStr(storage.apiKey)
                sends == configured /\ delivery # "throws"
            IN
            /\ sent' = IF sends THEN sent + 1 ELSE sent
            /\ awaiting' = IF sends THEN awaiting + 1 ELSE awaiting
            /\ tasks' = Tail(tasks)
            /\ pageEvent' =
                 [op |-> "getConfiguration", origin |-> "selection",
                  outcome |-> outcome,
                  text |-> Head(tasks).text,
                  active |-> Head(tasks).active,
                  message |-> IF sends
                              THEN Some([action |-> "translate",
                                         text |-> Head(tasks).text,
                                         apiUrl |-> storage.apiUrl,
                                         apiKey |-> storage.apiKey])
                              ELSE None]
            /\ UNCHANGED retranslating
       ELSE LET resolved == outcome = "result"
                sends == resolved /\ delivery # "throws"
            IN
            /\ sent' = IF sends THEN sent + 1 ELSE sent
            /\ retranslating' = IF sends THEN retranslating + 1 ELSE retranslating
            /\ tasks' = IF resolved
                        THEN Append(Tail(tasks), [kind |-> "setLanguage",
                                                  language |-> Head(tasks).language])
                        ELSE Tail(tasks)
            /\ pageEvent' =
                 [op |-> "getConfiguration", origin |-> "retranslate",
                  outcome |-> outcome,
                  text |-> Head(tasks).text,
                  active |-> isPluginActive,
                  message |-> IF sends
                              THEN Some([action |-> "translate",
                                         text |-> Head(tasks).text,
                                         apiUrl |-> storage.apiUrl,
                                         apiKey |-> storage.apiKey,
                                         targetLanguage |-> Head(tasks).language])
                              ELSE None]
            /\ UNCHANGED awaiting
    /\ UNCHANGED <<isPluginActive, isTranslationSent, storage, shortcuts, selection,
                   popups>>
    /\ UNCHANGED serviceVars

\* the response of a translate intent of sendTranslationRequest arrives
\* (lines 213-228): a response with translatedText, which shows a translation
\* popup and sets isTranslationSent, a response without, or
\* chrome.runtime.lastError
ResponseKinds == {"translated", "error", "lastError"}
TranslationAnswered(kind) ==
    /\ awaiting > 0
    /\ awaiting' = awaiting - 1
    /\ isTranslationSent' = IF kind = "translated" THEN TRUE ELSE isTranslationSent
    /\ popups' = IF kind = "translated" THEN popups + 1 ELSE popups
    /\ pageEvent' = [op |-> "response", origin |-> "selection", kind |-> kind]
    /\ UNCHANGED <<isPluginActive, storage, shortcuts, selection, tasks,
                   retranslating, sent>>
    /\ UNCHANGED serviceVars

\* the response of a translate intent of retranslateText arrives (lines
\* 377-389, 246-250): the text of the popup is replaced by the translation or
\* by the error; isTranslationSent is not touched
RetranslationAnswered(kind) ==
    /\ retranslating > 0
    /\ retranslating' = retranslating - 1
    /\ pageEvent' = [op |-> "response", origin |-> "retranslate", kind |-> kind]
    /\ UNCHANGED <<isPluginActive, isTranslationSent, storage, shortcuts, selection,
                   tasks, awaiting, popups, sent>>
    /\ UNCHANGED serviceVars

\* a translation popup is removed: its close button (line 254) or the
\* timeout of 15 seconds (lines 396-402)
PopupRemoved ==
    /\ popups > 0
    /\ popups' = popups - 1
    /\ pageEvent' = [op |-> "popupRemoved"]
    /\ UNCHANGED <<isPluginActive, isTranslationSent, storage, shortcuts, selection,
                   tasks, awaiting, retranslating, sent>>
    /\ UNCHANGED serviceVars

\* Steps of the page and of the settings popup.  The history of the
\* selection is kept with them: an intent belongs to the current selection
\* when it was sent after the last selectionchange, and fresh says whether
\* the response that arrives belongs to such an intent.  PressShortcut is a
\* keydown of Alt with one of the letters A, K, G; Configure is a save of the
\* settings popup that leaves the shortcuts at their defaults.
PressKey ==
    /\ \E altKey \in BOOLEAN, key \in Keys : KeyDown(altKey, key)
    /\ UNCHANGED episode
PressShortcut ==
    /\ \E key \in {"a", "K", "g"} : KeyDown(TRUE, key)
    /\ UNCHANGED episode
LoadDone == LoadStateDone /\ UNCHANGED episode
SetDone ==
    /\ \E outcome \in {"stored", "lastError"} : StorageSetDone(outcome)
    /\ UNCHANGED episode
Changed == StorageChanged /\ UNCHANGED episode
PopupSave ==
    /\ \E apiUrl \in ApiUrls, active \in BOOLEAN, sc \in PopupShortcuts :
          PopupSaveSettings(apiUrl, "key", active, sc)
    /\ UNCHANGED episode
Configure ==
    /\ \E apiUrl \in ApiUrls, active \in BOOLEAN :
          PopupSaveSettings(apiUrl, "key", active, Shortcuts)
    /\ UNCHANGED episode
SaveButton ==
    /\ \E apiUrl \in ApiUrls : PopupSaveButton(apiUrl, "key")
    /\ UNCHANGED episode
PopupToggle ==
    /\ \E active \in BOOLEAN : PopupTogglePluginStatus(active)
    /\ UNCHANGED episode
PageMessage ==
    /\ \E m \in PageMessages : HandleMessages(m)
    /\ UNCHANGED episode
Select ==
    /\ \E text \in Selections : SelectionChange(text)
    /\ episode' = [sent |-> 0, stale |-> awaiting, delivered |-> FALSE]
Release ==
    /\ ReadsConfiguration(isPluginActive, selection, isTranslationSent) => sent < MaxSent
    /\ \E get \in GetCalls : MouseUp(get)
    /\ UNCHANGED episode
ChangeLanguage ==
    /\ \E language \in Languages, get \in GetCalls : LanguageChange(language, get)
    /\ UNCHANGED episode
ConfigDone ==
    /\ \E outcome \in GetOutcomes, delivery \in {"delivered", "throws"} :
          ConfigurationDone(outcome, delivery)
    /\ episode' = [episode EXCEPT !.sent = @ + (sent' - sent)]
Answered ==
    \E kind \in ResponseKinds, fresh \in BOOLEAN :
        /\ IF fresh THEN awaiting > episode.stale ELSE episode.stale > 0
        /\ TranslationAnswered(kind)
        /\ episode' = [episode EXCEPT
                          !.stale = IF fresh THEN @ ELSE @ - 1,
                          !.delivered = @ \/ (fresh /\ kind = "translated")]
Reanswered ==
    /\ \E kind \in ResponseKinds : RetranslationAnswered(kind)
    /\ UNCHANGED episode
ClosePopup == PopupRemoved /\ UNCHANGED episode

\* The shortcuts of a page: keys are pressed, the page and the settings popup
\* write chrome.storage.local, storage callbacks run in the order
\* chrome.storage was asked, messages arrive.
ShortcutInit == ServiceInit /\ \E st \in ShortcutStorages : PageInit(st)

ShortcutNext ==
    \/ PressKey
    \/ LoadDone
    \/ SetDone
    \/ Changed
    \/ PopupSave
    \/ PopupToggle
    \/ PageMessage

ShortcutSpec == ShortcutInit /\ [][ShortcutNext]_vars

\* The content script of a page with the settings popup: every listener of
\* TranslationManager runs.  Keys are pressed, text is selected, the mouse
\* button is released, the language of a translation popup is changed,
\* storage callbacks run, storage changes and messages arrive, responses
\* arrive, popups are removed; the settings popup saves and toggles.
ContentInit == ServiceInit /\ \E st \in Storages : PageInit(st)

ContentNext ==
    \/ PressShortcut
    \/ LoadDone
    \/ SetDone
    \/ Changed
    \/ Configure
    \/ SaveButton
    \/ PopupToggle
    \/ PageMessage
    \/ Select
    \/ Release
    \/ ChangeLanguage
    \/ ConfigDone
    \/ Answered
    \/ Reanswered
    \/ ClosePopup

ContentSpec == ContentInit /\ [][ContentNext]_vars

\* ========================================================================
\* Properties of the rate limiter (checked under LimiterSpec)

Denied(i) == ~checks[i].result.isAllowed
Admitted(i) == checks[i].result.isAllowed

\* the admitted checks whose time lies in the trailing interval (t - TIME_WINDOW, t]
AdmittedWithin(t) ==
    {i \in 1..Len(checks) : Admitted(i) /\ checks[i].t <= t /\ t - checks[i].t < TIME_WINDOW}

\* C1: window correctness.  For admission checks at non-decreasing times, the
\* number of Admitted checks in the trailing interval of TIME_WINDOW
\* milliseconds that ends at the time of any check, (t - 60000, t], is at
\* most RATE_LIMIT.
C1_WindowCorrectness ==
    \A j \in 1..Len(checks) : Cardinality(AdmittedWithin(checks[j].t)) <= RATE_LIMIT

\* C1 witness: a full window denied a check, time passed, and a later check
\* was admitted while admissions of the earlier window are still in the log.
C1_Witness ==
    \E i, j \in 1..Len(checks) :
        /\ i < j
        /\ Denied(i)
        /\ Admitted(j)
        /\ checks[j].t > checks[i].t
        /\ Cardinality(AdmittedWithin(checks[j].t)) = RATE_LIMIT

\* C3: monotonic wait time.  If a check at time t is Denied with waitTime w,
\* a check at a time t2 >= t + w * 1000 is Admitted, provided no check was
\* Admitted in between.
C3_RetryAfterWaitAdmitted ==
    \A i, j \in 1..Len(checks) :
        ( /\ i < j
          /\ Denied(i)
          /\ checks[j].t >= checks[i].t + checks[i].result.waitTime * 1000
          /\ \A k \in (i + 1)..(j - 1) : Denied(k) )
        => Admitted(j)

\* C3 witness: a denied check was retried exactly waitTime seconds later,
\* with no admission in between, and the retry was admitted.
C3_Witness ==
    \E i, j \in 1..Len(checks) :
        /\ i < j
        /\ Denied(i)
        /\ checks[j].t = checks[i].t + checks[i].result.waitTime * 1000
        /\ \A k \in (i + 1)..(j - 1) : Denied(k)
        /\ Admitted(j)

\* the earliest admitted time before check i that is still inside the window
\* at the time of check i
InWindowBefore(i) ==
    {checks[k].t : k \in {k \in 1..(i - 1) :
                            Admitted(k) /\ checks[i].t - checks[k].t < TIME_WINDOW}}
OldestBefore(i) ==
    CHOOSE t \in InWindowBefore(i) : \A u \in InWindowBefore(i) : t <= u

\* the scenario of C4: 8 checks admitted at the start time, a 9th check at
\* the same time
EightAtStart ==
    /\ Len(checks) >= RATE_LIMIT + 1
    /\ \A i \in 1..(RATE_LIMIT + 1) : checks[i].t = StartTime
    /\ \A i \in 1..RATE_LIMIT : Admitted(i)

\* C4: a denied check reports waitTime = ceil((TIME_WINDOW - (now - oldest))
\* / 1000), oldest being the earliest admitted timestamp still inside the
\* window; after 8 admissions at time 0 a 9th check at time 0 is denied with
\* waitTime 60 and a check at 60001 ms is admitted (times relative to start).
C4_WaitTimeFormula ==
    /\ \A i \in 1..Len(checks) :
          Denied(i) =>
             /\ InWindowBefore(i) # {}
             /\ checks[i].result.waitTime
                  = MathCeil(TIME_WINDOW - (checks[i].t - OldestBefore(i)), 1000)
    /\ EightAtStart =>
          /\ Denied(RATE_LIMIT + 1)
          /\ checks[RATE_LIMIT + 1].result.waitTime = 60
          /\ \A j \in (RATE_LIMIT + 2)..Len(checks) :
                checks[j].t = StartTime + 60001
                  /\ (\A k \in (RATE_LIMIT + 2)..(j - 1) : Denied(k))
                => Admitted(j)

\* C4 witness: the scenario has run to its end, and a check was also denied
\* with a wait that is not a whole number of seconds before rounding.
C4_Witness ==
    /\ EightAtStart
    /\ checks[RATE_LIMIT + 1].result = [isAllowed |-> FALSE, waitTime |-> 60]
    /\ \E j \in (RATE_LIMIT + 2)..Len(checks) :
          /\ checks[j].t = StartTime + 1
          /\ checks[j].result = [isAllowed |-> FALSE, waitTime |-> 60]
    /\ \E j \in (RATE_LIMIT + 2)..Len(checks) :
          /\ checks[j].t = StartTime + 60001
          /\ Admitted(j)

\* the window after the first n checks of the history, had no status
\* computation run in between
RECURSIVE ReplayWindow(_)
ReplayWindow(n) ==
    IF n = 0 THEN <<>>
    ELSE canMakeRequest(ReplayWindow(n - 1), checks[n].t).timestamps

\* C5: idempotent status read (checked under StatusSpec).  The outcome of
\* every admission check (Admitted / Denied and waitTime) is the outcome it
\* has when no status computation runs at all, however many ran before it,
\* and the window holds what the checks alone put there: sendRateLimitUpdate
\* never appends to or prunes requestTimestamps.  (Stated for the last check
\* of the history; every check was the last one when it ran.)
C5_StatusReadIdempotent ==
    /\ checks # <<>> =>
          LET n == Len(checks) IN
          checks[n].result = canMakeRequest(ReplayWindow(n - 1), checks[n].t).result
    /\ requestTimestamps = ReplayWindow(Len(checks))

\* C5 witness: a check that directly follows a status computation (whose
\* callback is still pending) was denied, after the clock advanced.
C5_Witness ==
    /\ lastEvent.op = "onMessage"
    /\ lastEvent.prev = "timerFired"
    /\ queries # <<>>
    /\ lastEvent.check # None
    /\ ~lastEvent.check[1].isAllowed
    /\ lastEvent.at > StartTime

\* ========================================================================
\* Properties of the request governor (checked under Spec)

EgressActions == {"translate", "testConnection"}

\* the step handles a message whose admission check is denied
DeniedStep ==
    /\ Len(checks') = Len(checks) + 1
    /\ ~checks'[Len(checks')].result.isAllowed

\* C2: no network on local denial.  A step in which the admission check of a
\* translate or testConnection message is Denied calls fetch for no intent:
\* the count of transport calls and the set of pending intents are unchanged.
C2_NoNetworkOnDenial ==
    [][ (DeniedStep /\ lastEvent'.action \in EgressActions)
        => (fetchCalls' = fetchCalls /\ inflight' = inflight /\ ~lastEvent'.fetched) ]_vars

\* C2 witness: a translate was denied after RATE_LIMIT intents had each made
\* their transport call.
C2_Witness ==
    /\ lastEvent.op = "onMessage"
    /\ lastEvent.action = "translate"
    /\ lastEvent.check = Some([isAllowed |-> FALSE, waitTime |-> 60])
    /\ fetchCalls = RATE_LIMIT

\* C6: retry bound (the claim as stated).  A translate that is the only
\* intent so far and whose endpoint answered HTTP 429 has, when it settles,
\* made exactly maxRetries + 1 = 4 transport calls and its response is an
\* error.
C6_RetryBound ==
    ( /\ lastEvent.op = "settled"
      /\ lastEvent.action = "translate"
      /\ lastEvent.fetch = [settle |-> "resolve", status |-> 429]
      /\ Len(checks) = 1 )
    => ( /\ fetchCalls = 3 + 1
         /\ "error" \in DOMAIN lastEvent.response[1] )

\* C7: only egress consumes quota (the claim as stated).  A step that handles
\* a message of a kind other than translate and testConnection appends no
\* timestamp to the window and sends no rate-limit denial.
C7_OnlyEgressConsumesQuota ==
    [][ (lastEvent'.op = "onMessage" /\ lastEvent'.action \notin EgressActions)
        => ( /\ requestTimestamps' # Append(Prune(requestTimestamps, now), now)
             /\ lastEvent'.response = None ) ]_vars

\* C8: all outbound calls share one window (the claim as stated).  Every
\* step that calls fetch on the translation backend made an admission check
\* on the shared window, and the check was Admitted.
C8_EveryCallAdmitted ==
    (lastEvent.op \in {"onMessage", "popupTest"} /\ lastEvent.fetched)
    => lastEvent.check = Some([isAllowed |-> TRUE])

\* C9: testConnection never raises past its boundary.  Whatever the
\* transport does, the promise of testConnection is fulfilled, never
\* rejected, with a value of the shape {success, message}; a network-level
\* failure gives success = false and the failure's description as message.
C9_TestConnectionNeverRejects ==
    (lastEvent.op = "settled" /\ lastEvent.action = "testConnection")
    => ( /\ lastEvent.promise = "fulfilled"
         /\ DOMAIN lastEvent.response[1] = {"success", "message"}
         /\ lastEvent.response[1].success \in BOOLEAN
         /\ (lastEvent.fetch.settle = "reject"
               => lastEvent.response[1]
                    = [success |-> FALSE, message |-> lastEvent.fetch.error]) )

\* C9 witness: a testConnection whose fetch was rejected by the network has
\* settled.
C9_Witness ==
    /\ lastEvent.op = "settled"
    /\ lastEvent.action = "testConnection"
    /\ lastEvent.fetch.settle = "reject"
    /\ lastEvent.response = Some([success |-> FALSE,
                                  message |-> [text |-> "Failed to fetch"]])

\* C10: response shape of testConnection (the claim as stated).  Every
\* response sent for a testConnection message has exactly the fields success
\* and message, the response of a locally denied message included.
C10_TestConnectionResponseShape ==
    ( /\ lastEvent.op \in {"onMessage", "settled"}
      /\ lastEvent.action = "testConnection"
      /\ lastEvent.response # None )
    => DOMAIN lastEvent.response[1] = {"success", "message"}

\* the intent a step of kind "settled" answered, and the promise of
\* translateText / testConnection it was answered for
SettledIntent == [action |-> lastEvent.action]
SettledPromise ==
    IF lastEvent.body = None
    THEN AfterFetch(SettledIntent, lastEvent.fetch)
    ELSE AfterJson(SettledIntent, lastEvent.body[1])

\* the last step answered a locally denied message
DenialAnswered ==
    /\ lastEvent.op = "onMessage"
    /\ lastEvent.check # None
    /\ ~lastEvent.check[1].isAllowed

\* the last step answered a translate / testConnection that failed
FailureAnswered ==
    /\ lastEvent.op = "settled"
    /\ Failed(SettledIntent, SettledPromise)

\* C11: notification failure never masks the error (the claim as stated).
\* The response of a locally denied message carries the rate-limit wait
\* message, and the response of a failed translate / testConnection carries
\* the original error, whatever chrome.runtime.sendMessage did with the
\* showMessage notification.
C11_NotificationFailureNeverMasks ==
    /\ DenialAnswered =>
          lastEvent.response
            = Some([error |-> [message |-> RateLimitMessage(lastEvent.check[1].waitTime)]])
    /\ FailureAnswered =>
          lastEvent.response
            = Some(ResponseOf(SettledIntent, SettledPromise, "delivered"))

\* C12: denial carries the wait time (the claim as stated).  Every local
\* denial answers with an error whose message holds the waitTime of the
\* admission check and emits a showMessage notification of type 'error' with
\* the same waitTime.
C12_DenialCarriesWaitTime ==
    DenialAnswered =>
        LET w == lastEvent.check[1].waitTime IN
        /\ "error" \in DOMAIN lastEvent.response[1]
        /\ "waitTime" \in DOMAIN lastEvent.response[1].error.message
        /\ lastEvent.response[1].error.message.waitTime = w
        /\ lastEvent.notified # None
        /\ lastEvent.notified[1].type = "error"
        /\ lastEvent.notified[1].message = RateLimitMessage(w)

\* ========================================================================
\* Every intent is answered (checked under AnswerSpec)

\* translate and testConnection messages arrive and the promises of the
\* admitted ones settle; a promise that can settle eventually does (the
\* transport resolves or rejects, and the event loop then runs the callback).
ReceiveIntent ==
    \E a \in EgressActions, dl \in Deliveries :
        /\ Len(checks) < MaxIntents
        /\ OnMessage(a, dl)

AnswerNext == ReceiveIntent \/ FetchDone \/ JsonDone

AnswerSpec ==
    Init /\ [][AnswerNext]_vars /\ WF_vars(FetchDone) /\ WF_vars(JsonDone)

\* the number of intents whose caller still awaits its response
Pending == BagCardinality(inflight)

\* C13: every translate or testConnection intent is answered exactly once.
\* The step that receives the message either answers it (local denial) or
\* leaves it pending, never both and never neither; a pending intent stays
\* pending until the step that sends its one response, in every outcome of
\* the transport; and every pending intent is eventually answered.
C13_ExactlyOneResponse ==
    /\ [][ /\ lastEvent'.op = "onMessage" =>
                /\ (lastEvent'.response # None) = (Pending' = Pending)
                /\ (lastEvent'.response = None) = (Pending' = Pending + 1)
           /\ lastEvent'.op = "fetchResolved" => Pending' = Pending
           /\ lastEvent'.op = "settled" =>
                /\ lastEvent'.response # None
                /\ Pending' = Pending - 1 ]_vars
    /\ []<>(inflight = EmptyBag)

\* C13 witness: after a denial was answered, the last pending intent was
\* answered with an error although its notification could not be sent.
C13_Witness ==
    /\ Len(checks) > RATE_LIMIT
    /\ lastEvent.op = "settled"
    /\ lastEvent.promise = "rejected"
    /\ lastEvent.notified = None
    /\ lastEvent.response # None
    /\ inflight = EmptyBag

\* ========================================================================
\* Responses of translate (checked under Spec)

\* the last step answered a translate whose backend answered HTTP 200 with a
\* JSON object
TranslateAnswered200 ==
    /\ lastEvent.op = "settled"
    /\ lastEvent.action = "translate"
    /\ lastEvent.fetch = [settle |-> "resolve", status |-> 200]
    /\ lastEvent.body # None
    /\ lastEvent.body[1].parse = "object"

\* C14: translate on HTTP 200 (the claim as stated).  A body without error
\* field and with a non-empty translatedText is answered with exactly
\* {translatedText}; a body with an error field is answered with
\* {error:{message}} holding the upstream error message and no translatedText.
C14_TranslateResponseOn200 ==
    TranslateAnswered200 =>
        LET body == lastEvent.body[1] IN
        /\ (body.error = Undefined /\ TruthyStr(body.translatedText))
              => lastEvent.response = Some([translatedText |-> body.translatedText])
        /\ body.error # Undefined
              => lastEvent.response = Some([error |-> [message |-> [text |-> body.error]]])

\* ========================================================================
\* Properties of the rate-limit broadcast

\* the last step was the timer firing sendRateLimitUpdate: lastEvent.status
\* holds the values of lines 28-31, computed from requestTimestamps at
\* lastEvent.at = now
TimerFired == lastEvent.op = "timerFired"

\* the last step was the callback of chrome.tabs.query: lastEvent.status
\* holds the values the rateLimitUpdate message carries
Broadcasted == lastEvent.op = "rateLimitUpdate"

\* the values computed by the last step, or carried by its message
Reported == TimerFired \/ Broadcasted

\* C15: shape of rateLimitUpdate (checked under StatusSpec).  Every
\* rateLimitUpdate carries an integer remainingRequests in 0..RATE_LIMIT and
\* a waitTime that is null or an integer, and so do the values every firing
\* of the timer computes for it; computed with an empty window they are
\* remainingRequests = RATE_LIMIT and waitTime null.
C15_RateLimitUpdateShape ==
    /\ Reported =>
          LET status == lastEvent.status IN
          /\ status.remainingRequests \in 0..RATE_LIMIT
          /\ \/ status.waitTime = None
             \/ Len(status.waitTime) = 1 /\ status.waitTime[1] \in Int
    /\ (TimerFired /\ requestTimestamps = <<>>) =>
          /\ lastEvent.status.remainingRequests = RATE_LIMIT
          /\ lastEvent.status.waitTime = None
    /\ \A i \in 1..Len(queries) :
          queries[i].remainingRequests \in 0..RATE_LIMIT

\* C15 witness: after the clock advanced, a rateLimitUpdate was sent that
\* reports a full window and a waitTime in seconds.
C15_Witness ==
    /\ Broadcasted
    /\ lastEvent.sent
    /\ now > StartTime
    /\ lastEvent.status.remainingRequests = 0
    /\ lastEvent.status.waitTime # None

\* C18: the status computation prunes (the claim as stated; checked under
\* StatusSpec).  Every firing of the timer computes, for its rateLimitUpdate,
\* RATE_LIMIT minus the number of admitted timestamps within TIME_WINDOW of
\* the instant of the firing.
C18_StatusPrunes ==
    TimerFired =>
        lastEvent.status.remainingRequests
          = RATE_LIMIT - Len(Prune(requestTimestamps, lastEvent.at))

\* C19: no wait while quota remains (the claim as stated; checked under
\* StatusSpec).  In every rateLimitUpdate, waitTime is null whenever
\* remainingRequests > 0.
C19_NoWaitWhileRemaining ==
    (Broadcasted /\ lastEvent.status.remainingRequests > 0)
    => lastEvent.status.waitTime = None

\* C20: a reported wait is never negative (checked under StatusSpec, whose
\* clock never goes back).  Every Denied check has waitTime >= 0 and every
\* waitTime that is not null, computed for a rateLimitUpdate or carried by
\* one, is >= 0.
C20_WaitNeverNegative ==
    /\ \A i \in 1..Len(checks) : Denied(i) => checks[i].result.waitTime >= 0
    /\ (Reported /\ lastEvent.status.waitTime # None)
          => lastEvent.status.waitTime[1] >= 0

\* C20 witness: a check was denied, and the timer fired when the oldest
\* timestamp of the window was more than TIME_WINDOW in the past, where the
\* formula of line 31 gives a negative value.
C20_Witness ==
    /\ \E i \in 1..Len(checks) : Denied(i)
    /\ TimerFired
    /\ requestTimestamps # <<>>
    /\ WaitTime(requestTimestamps[1], lastEvent.at) < 0
    /\ lastEvent.status.waitTime = None

\* ========================================================================
\* Properties of the content script (C16 checked under ShortcutSpec, C17
\* under ContentSpec, defined above)

\* the step is a keydown of the letter k (either case) with Alt held
PressedAlt(k) ==
    /\ pageEvent'.op = "keydown"
    /\ pageEvent'.altKey
    /\ ToUpperCase(pageEvent'.key) = k

\* the previous step was a keydown of the letter k with Alt held
JustPressedAlt(k) ==
    /\ pageEvent.op = "keydown"
    /\ pageEvent.altKey
    /\ ToUpperCase(pageEvent.key) = k

\* the shortcuts of the page are the defaults A, K, T, G
DefaultShortcuts == shortcuts = Shortcuts

\* C16: activation shortcuts.  With the default shortcuts, Alt+A leaves the
\* plugin active and Alt+K inactive whatever the state before, Alt+G flips
\* the state, a second Alt+G right after the first restores the state before
\* the first, a second Alt+A or Alt+K changes nothing, and the new state is
\* the value handed to chrome.storage.local.set; a write that succeeds stores
\* that value.  When the Activate shortcut is another letter, Alt with that
\* letter leaves the plugin active.
C16_ActivationShortcuts ==
    [][ /\ (DefaultShortcuts /\ PressedAlt("A")) => isPluginActive'
        /\ (DefaultShortcuts /\ PressedAlt("K")) => ~isPluginActive'
        /\ (DefaultShortcuts /\ PressedAlt("G")) => isPluginActive' = ~isPluginActive
        /\ (DefaultShortcuts /\ PressedAlt("G") /\ JustPressedAlt("G"))
              => isPluginActive' = pageEvent.before
        /\ (DefaultShortcuts /\ PressedAlt("A") /\ JustPressedAlt("A"))
              => isPluginActive' = isPluginActive
        /\ (DefaultShortcuts /\ PressedAlt("K") /\ JustPressedAlt("K"))
              => isPluginActive' = isPluginActive
        /\ (DefaultShortcuts /\ (PressedAlt("A") \/ PressedAlt("K") \/ PressedAlt("G")))
              => tasks' = Append(tasks, [kind |-> "set", value |-> isPluginActive'])
        /\ PressedAlt(shortcuts.activate)
              => /\ isPluginActive'
                 /\ tasks' = Append(tasks, [kind |-> "set", value |-> TRUE])
        /\ (pageEvent'.op = "setDone" /\ pageEvent'.outcome = "stored")
              => storage'.isPluginActive = Some(Head(tasks).value) ]_vars

\* C16 witness: the plugin was active, Alt+G was pressed twice in a row, the
\* plugin is active again and both values wait to be written to storage.
C16_Witness ==
    /\ DefaultShortcuts
    /\ pageEvent.op = "keydown"
    /\ pageEvent.altKey
    /\ ToUpperCase(pageEvent.key) = "G"
    /\ pageEvent.prev = "toggle"
    /\ isPluginActive
    /\ tasks = <<[kind |-> "set", value |-> FALSE], [kind |-> "set", value |-> TRUE]>>

\* C17 (the claim as stated): no translation while inactive.  A mouseup while
\* isPluginActive is false starts nothing and sends nothing; and when the
\* page sends a translate intent for a text selection, the plugin is active,
\* the trimmed text is not empty, and apiUrl and apiKey are both set in
\* storage.
C17_NoTranslateWhileInactive ==
    [][ /\ (pageEvent'.op = "mouseup" /\ ~isPluginActive)
              => (tasks' = tasks /\ sent' = sent /\ awaiting' = awaiting)
        /\ awaiting' > awaiting
              => /\ isPluginActive
                 /\ pageEvent'.text # ""
                 /\ TruthyStr(storage.apiUrl)
                 /\ TruthyStr(storage.apiKey) ]_vars

\* ========================================================================
\* Atomicity of the admission check (checked under TimerSpec, defined below)

\* the number of checks admitted before check i whose time is within
\* TIME_WINDOW of the time of check i
CountBefore(i) ==
    Cardinality({k \in 1..(i - 1) :
                    Admitted(k) /\ checks[i].t - checks[k].t < TIME_WINDOW})

\* C21: the admission check is atomic.  Whatever intents are awaiting the
\* network and whenever the broadcaster fires, of two checks at the same
\* instant that find exactly one slot free the first is Admitted and the
\* second Denied, and requestTimestamps never holds more than RATE_LIMIT
\* entries.
C21_AdmissionAtomic ==
    /\ Len(requestTimestamps) <= RATE_LIMIT
    /\ \A i \in 1..(Len(checks) - 1) :
          (CountBefore(i) = RATE_LIMIT - 1 /\ checks[i + 1].t = checks[i].t)
          => (Admitted(i) /\ Denied(i + 1))

\* C21 witness: the intent that took the last slot and the one denied right
\* after it arrived while intents admitted earlier were awaiting the network
\* and a callback of the broadcaster was pending.
C21_Witness ==
    /\ queries # <<>>
    /\ lastEvent.op = "onMessage"
    /\ lastEvent.action \in EgressActions
    /\ lastEvent.prev = "onMessage"
    /\ Len(checks) = RATE_LIMIT + 1
    /\ CountBefore(RATE_LIMIT) = RATE_LIMIT - 1
    /\ Admitted(RATE_LIMIT)
    /\ Denied(RATE_LIMIT + 1)
    /\ BagCardinality(inflight) = MaxInflight

\* ========================================================================
\* Frame of the window (checked under FrameSpec)

\* Every operation of the background service around the window: the clock
\* advances at any moment, by half a window at a time, so that a check finds
\* a window of which some entries have expired and others have not;
\* translate intents and updatePluginStatus messages pass the gate, a denied
\* one with its notification; the fetch and response.json() promises of the
\* admitted intents settle; the timer fires and its chrome.tabs.query
\* callback runs.  FramePending counts the callbacks that wait to run: the
\* promises of the intents in flight and the chrome.tabs.query callbacks.
FrameActions == {"translate", "updatePluginStatus"}
FrameFetchOutcomes ==
    {[settle |-> "reject", error |-> [text |-> "Failed to fetch"]],
     [settle |-> "resolve", status |-> 200]}
FrameBodies ==
    {[parse |-> "object", translatedText |-> "Hola", error |-> Undefined,
      status |-> Undefined]}
FrameSteps == {TIME_WINDOW \div 2}
FrameTick == \E d \in FrameSteps : Advance(d)
FramePending == BagCardinality(inflight) + Len(queries)
ReceiveFrame ==
    \E a \in FrameActions :
        /\ Len(checks) < MaxFrameChecks
        /\ a = "translate" => /\ fetchCalls < MaxFrameFetches
                               /\ FramePending < MaxFramePending
        /\ OnMessage(a, "delivered")
FetchDoneFrame ==
    \E r \in BagToSet(inflight), o \in FrameFetchOutcomes :
        FetchSettles(r, o, "delivered")
JsonDoneFrame ==
    \E r \in BagToSet(inflight), b \in FrameBodies :
        JsonSettles(r, b, "delivered")
TimerFiresFrame ==
    /\ FramePending < MaxFramePending
    /\ SendRateLimitUpdate
BroadcastFrame == TabsQueryCallback(Some(1), "delivered")

FrameNext ==
    \/ FrameTick
    \/ ReceiveFrame
    \/ FetchDoneFrame
    \/ JsonDoneFrame
    \/ TimerFiresFrame
    \/ BroadcastFrame

FrameSpec == Init /\ [][FrameNext]_vars

\* the step runs an admission check
CheckStep == Len(checks') = Len(checks) + 1

\* requestTimestamps without the entries that are TIME_WINDOW old or older
WithoutExpired ==
    SelectSeq(requestTimestamps, LAMBDA ts : ~(now - ts >= TIME_WINDOW))

\* C22: effect of the admission check on the window.  A step that runs a
\* check removes exactly the entries with now - ts >= TIME_WINDOW; if the
\* check is Admitted it then appends exactly one entry equal to now, if it is
\* Denied it appends nothing.  No other step (the timer firing, the callback
\* that sends the broadcast, the settling of a fetch or of response.json()
\* with its response and notification, the clock) changes requestTimestamps.
C22_WindowFrame ==
    [][ IF CheckStep
        THEN IF checks'[Len(checks')].result.isAllowed
             THEN requestTimestamps' = Append(WithoutExpired, now)
             ELSE requestTimestamps' = WithoutExpired
        ELSE requestTimestamps' = requestTimestamps ]_vars

\* C22 witness: the window held entries of StartTime and one of half a window
\* later and was full, a check at that instant was denied and left it as it
\* was, and the last step, a check TIME_WINDOW after StartTime, removed the
\* entries of StartTime, kept the later one and appended now; an admitted
\* intent has settled in the meantime.
C22_Witness ==
    /\ lastEvent.op = "onMessage"
    /\ lastEvent.check # None
    /\ lastEvent.check[1].isAllowed
    /\ now = StartTime + TIME_WINDOW
    /\ requestTimestamps = <<StartTime + TIME_WINDOW \div 2, now>>
    /\ Len(checks) = RATE_LIMIT + 2
    /\ checks[1] = [t |-> StartTime, result |-> [isAllowed |-> TRUE]]
    /\ checks[RATE_LIMIT + 1].t = StartTime + TIME_WINDOW \div 2
    /\ ~checks[RATE_LIMIT + 1].result.isAllowed
    /\ fetchCalls > BagCardinality(inflight)

\* ========================================================================
\* Order of the window (checked under StatusSpec, whose clock never goes back)

\* C23: requestTimestamps is in non-decreasing order, so its first entry is
\* its oldest, and that entry is the one a firing of the timer computes
\* waitTime from.
C23_WindowOrdered ==
    /\ \A i, j \in 1..Len(requestTimestamps) :
          i < j => requestTimestamps[i] <= requestTimestamps[j]
    /\ \A i \in 1..Len(requestTimestamps) :
          requestTimestamps[1] <= requestTimestamps[i]
    /\ (TimerFired /\ lastEvent.status.waitTime # None)
          => \E i \in 1..Len(requestTimestamps) :
                /\ \A j \in 1..Len(requestTimestamps) :
                      requestTimestamps[i] <= requestTimestamps[j]
                /\ lastEvent.status.waitTime
                     = Some(MathCeil(TIME_WINDOW - (lastEvent.at - requestTimestamps[i]), 1000))

\* C23 witness: the window holds entries of two different instants and the
\* timer has just fired and computed a wait from the older one.
C23_Witness ==
    /\ TimerFired
    /\ lastEvent.status.waitTime # None
    /\ Len(requestTimestamps) >= 2
    /\ requestTimestamps[1] < requestTimestamps[Len(requestTimestamps)]

\* ========================================================================
\* Failures of translate (checked under Spec)

\* the last step answered an admitted translate
TranslateAnswered ==
    /\ lastEvent.op = "settled"
    /\ lastEvent.action = "translate"

\* the response is an error result and holds no translation
IsErrorResult(response) ==
    /\ "error" \in DOMAIN response
    /\ "translatedText" \notin DOMAIN response

\* C24: empty result (the claim as stated).  An admitted translate whose
\* backend returns a success body without error field and with an absent or
\* empty translatedText is answered with an error result, never with a
\* response whose translatedText is absent or empty.
C24_EmptyResultIsError ==
    ( /\ TranslateAnswered200
      /\ lastEvent.body[1].error = Undefined
      /\ ~TruthyStr(lastEvent.body[1].translatedText) )
    => IsErrorResult(lastEvent.response[1])

\* C25: HTTP error (the claim as stated).  An admitted translate whose
\* backend answers with a status that is neither 2xx nor 429 is answered with
\* an error result that carries the status code, whatever the body holds.
C25_HttpErrorCarriesStatus ==
    ( /\ TranslateAnswered
      /\ lastEvent.fetch.settle = "resolve"
      /\ ~Ok(lastEvent.fetch.status)
      /\ lastEvent.fetch.status # 429 )
    => /\ IsErrorResult(lastEvent.response[1])
       /\ "status" \in DOMAIN lastEvent.response[1].error.message
       /\ lastEvent.response[1].error.message.status = lastEvent.fetch.status

\* C27: transport failure (the claim as stated).  An admitted translate
\* whose fetch rejects is answered with {error:{message}} whose message is
\* the description of the failure, and when it is the only intent so far
\* exactly one transport call has been made.
C27_TransportFailureSurfaced ==
    ( /\ TranslateAnswered
      /\ lastEvent.fetch.settle = "reject" )
    => /\ lastEvent.response = Some([error |-> [message |-> lastEvent.fetch.error]])
       /\ Len(checks) = 1 => fetchCalls = 1

\* ========================================================================
\* Intake of requests (checked under IntakeSpec)

\* translate and testConnection messages arrive, well formed or with a field
\* empty, and the admitted ones settle.
ReceiveRequest ==
    \E m \in Requests, dl \in Deliveries :
        /\ Len(checks) < MaxIntents
        /\ OnRequest(m, dl)

IntakeNext == ReceiveRequest \/ FetchDone \/ JsonDone

IntakeSpec == Init /\ [][IntakeNext]_vars

\* one of the four fields of a translate request is empty
MissingField(message) ==
    \/ message.text = ""
    \/ message.targetLanguage = ""
    \/ message.apiUrl = ""
    \/ message.apiKey = ""

\* C26: request validation (the claim as stated).  A translate message in
\* which text, targetLanguage, apiUrl or apiKey is empty is answered at once
\* with an error and causes no transport call.
C26_InvalidRequestRejected ==
    ( /\ lastEvent.op = "onMessage"
      /\ lastEvent.action = "translate"
      /\ MissingField(lastEvent.message) )
    => /\ ~lastEvent.fetched
       /\ lastEvent.response # None
       /\ "error" \in DOMAIN lastEvent.response[1]

\* the probe of testConnection: English "Hello" to Spanish
IsProbe(payload) ==
    /\ payload.q = "Hello"
    /\ payload.source = "en"
    /\ payload.target = "es"

\* C29: the probe of testConnection.  The step that admits a testConnection
\* makes exactly one transport call, with q = 'Hello', source = 'en',
\* target = 'es' whatever the message holds, and no later step of that intent
\* makes another call, whatever the backend answers, HTTP 429 included.
C29_TestConnectionProbesOnce ==
    [][ /\ ( /\ lastEvent'.op = "onMessage"
             /\ lastEvent'.action = "testConnection"
             /\ lastEvent'.check = Some([isAllowed |-> TRUE]) )
           => /\ fetchCalls' = fetchCalls + 1
              /\ lastEvent'.payload # None
              /\ IsProbe(lastEvent'.payload[1])
        /\ ( /\ lastEvent'.op \in {"fetchResolved", "settled"}
             /\ lastEvent'.action = "testConnection" )
           => fetchCalls' = fetchCalls ]_vars

\* C29 witness: the only intent so far, a testConnection, was answered after
\* the backend replied HTTP 429, and one transport call has been made.
C29_Witness ==
    /\ lastEvent.op = "settled"
    /\ lastEvent.action = "testConnection"
    /\ lastEvent.fetch = [settle |-> "resolve", status |-> 429]
    /\ Len(checks) = 1
    /\ fetchCalls = 1

\* ========================================================================
\* Result of testConnection (checked under IntakeSpec)

\* the last step answered an admitted testConnection whose fetch resolved
\* with an HTTP response
TestConnectionAnswered ==
    /\ lastEvent.op = "settled"
    /\ lastEvent.action = "testConnection"
    /\ lastEvent.fetch.settle = "resolve"

\* the body of the HTTP response was read as a JSON object
BodyIsObject == lastEvent.body # None /\ lastEvent.body[1].parse = "object"

\* HTTP 2xx and a body with a non-empty translatedText
ProbeSucceeded ==
    /\ Ok(lastEvent.fetch.status)
    /\ BodyIsObject
    /\ TruthyStr(lastEvent.body[1].translatedText)

\* the message for a failure that is neither an HTTP error nor an unreadable
\* body: the upstream error field if present, else 'Unknown API error'
UpstreamOrUnknown ==
    IF BodyIsObject /\ TruthyStr(lastEvent.body[1].error)
    THEN [text |-> lastEvent.body[1].error]
    ELSE [text |-> "Unknown API error"]

\* C28 (the claim as stated): success = true if and only if the status is
\* 2xx and the body holds a non-empty translatedText; otherwise the message
\* is 'HTTP error! Status: <code>' for a non-2xx status, else the upstream
\* error field if present, else 'Unknown API error'.
C28_TestConnectionResult ==
    TestConnectionAnswered =>
        LET result == lastEvent.response[1] IN
        /\ result.success = ProbeSucceeded
        /\ ~result.success =>
              result.message = IF ~Ok(lastEvent.fetch.status)
                               THEN HttpErrorMessage(lastEvent.fetch.status)
                               ELSE UpstreamOrUnknown

\* ========================================================================
\* A tick with nobody to receive it (checked under StatusSpec)

\* the last step was a callback whose message reached no UI collaborator:
\* the query for the active tab failed or found no tab, or
\* chrome.runtime.sendMessage threw
SilentTick == Broadcasted /\ ~lastEvent.sent

\* C31 (the claim as stated): a tick with no reachable UI collaborator is a
\* silent no-op.  Such a step raises no error, leaves the rate-limit window
\* (and every other variable of the governor) unchanged, and leaves the
\* broadcaster running: the timer can fire again.
C31_UnreachableTickIsNoOp ==
    /\ [][(lastEvent'.op = "rateLimitUpdate" /\ ~lastEvent'.sent)
            => UNCHANGED <<now, ticks, requestTimestamps, checks,
                           inflight, fetchCalls>>]_vars
    /\ [](SilentTick => lastEvent.raised = None)
    /\ []((SilentTick /\ Len(queries) < MaxQueries) => ENABLED TimerFires)

\* ========================================================================
\* Transport calls over time (checked under EgressSpec)

\* The clock advances, translate and testConnection messages arrive, and the
\* transport call of an admitted intent fails, which settles the intent in
\* one step (src/api.js:100-116, 229-231, 122-139).
TransportFails ==
    \E r \in BagToSet(inflight) :
        FetchSettles(r, [settle |-> "reject", error |-> [text |-> "Failed to fetch"]],
                     "delivered")
ReceiveEgress ==
    \E a \in EgressActions :
        /\ Len(checks) < MaxIntents
        /\ OnMessage(a, "delivered")

EgressTick ==
    \E d \in Steps :
        /\ ticks < MaxEgressTicks
        /\ Advance(d)

EgressNext == EgressTick \/ ReceiveEgress \/ TransportFails

EgressSpec == Init /\ [][EgressNext]_vars

\* the last check of the log after a step
LastCheckAfter == checks'[Len(checks')]

\* C32: end-to-end egress bound.  A step of the background service starts
\* at most one transport call, and only together with an admission check
\* that returned Admitted at that instant; so transport calls are never more
\* than Admitted checks, and in every trailing interval of TIME_WINDOW
\* milliseconds, (t - 60000, t], ending at a check or at the present, at most
\* RATE_LIMIT of them were started.
C32_EgressBound ==
    /\ [][fetchCalls' # fetchCalls
            => /\ fetchCalls' = fetchCalls + 1
               /\ Len(checks') = Len(checks) + 1
               /\ LastCheckAfter = [t |-> now, result |-> [isAllowed |-> TRUE]]]_vars
    /\ [](fetchCalls <= Cardinality({i \in 1..Len(checks) : Admitted(i)}))
    /\ [](\A j \in 1..Len(checks) :
              Cardinality(AdmittedWithin(checks[j].t)) <= RATE_LIMIT)
    /\ [](Cardinality(AdmittedWithin(now)) <= RATE_LIMIT)

\* C32 witness: RATE_LIMIT transport calls were started, a further intent
\* was denied and started none, and after the window had passed another
\* intent was admitted and started the next call.
C32_Witness ==
    /\ fetchCalls = RATE_LIMIT + 1
    /\ lastEvent.op = "onMessage"
    /\ lastEvent.fetched
    /\ lastEvent.at >= StartTime + TIME_WINDOW
    /\ \E i \in 1..Len(checks) : Denied(i)

\* ========================================================================
\* The broadcaster never stops (checked under TimerSpec)

\* Intents arrive, stay in flight or fail (ReceiveEgress and TransportFails
\* are defined with EgressSpec above); the interval timer of line 55 is never
\* cleared, so a tick that is due eventually runs, and chrome.tabs.query
\* eventually calls back.
TimerNext == ReceiveEgress \/ TransportFails \/ TimerFires \/ Broadcast

TimerSpec == Init /\ [][TimerNext]_vars /\ WF_vars(TimerFires) /\ WF_vars(Broadcast)

\* C30: the broadcaster runs from initialisation and never stops.  In every
\* reachable state the timer can fire sendRateLimitUpdate (unless the model's
\* bound on pending callbacks is reached) and a pending callback can run, and
\* both keep occurring: whatever else happens (intents denied, in flight or
\* failing, messages that cannot be sent), the timer fires again and a
\* callback runs again.
C30_BroadcasterNeverStops ==
    /\ [](Len(queries) < MaxQueries => ENABLED TimerFires)
    /\ [](queries # <<>> => ENABLED Broadcast)
    /\ []<>TimerFired
    /\ []<>Broadcasted

\* C30 witness: a callback ran while the window was full, an intent had been
\* denied, intents were in flight, and its own message could not be sent.
C30_Witness ==
    /\ Broadcasted
    /\ ~lastEvent.sent
    /\ Len(requestTimestamps) = RATE_LIMIT
    /\ \E i \in 1..Len(checks) : Denied(i)
    /\ inflight # EmptyBag

\* ========================================================================
\* Recovery of the quota (checked under RecoverySpec)

\* The clock advances and gated messages that start no transport call arrive,
\* often enough to fill the window, be denied, and fill it again.
ReceiveGated ==
    \E dl \in Deliveries : OnMessage("updatePluginStatus", dl)

RecoveryNext == Tick \/ ReceiveGated

RecoverySpec == Init /\ [][RecoveryNext]_vars

\* no check before the j-th was Admitted within TIME_WINDOW of the j-th
QuietBefore(j) ==
    \A i \in 1..(j - 1) : Admitted(i) => checks[j].t - checks[i].t >= TIME_WINDOW

\* C33: denial is never permanent.  If no check was Admitted during the
\* TIME_WINDOW milliseconds before a check, that check and the checks after
\* it, RATE_LIMIT consecutive checks in all, are Admitted; pruning inside
\* canMakeRequest alone restores the quota (RecoverySpec has no timer).
C33_QuotaRestored ==
    \A j \in 1..Len(checks) :
        QuietBefore(j) =>
            \A k \in j..(j + RATE_LIMIT - 1) : k <= Len(checks) => Admitted(k)

\* C33 witness: the window was filled, a check was denied, and after
\* TIME_WINDOW without an admission RATE_LIMIT consecutive checks were
\* Admitted, the last of them later than the first.
C33_Witness ==
    \E j \in 2..Len(checks) :
        /\ Denied(j - 1)
        /\ QuietBefore(j)
        /\ Len(checks) = j + RATE_LIMIT - 1
        /\ \A k \in j..Len(checks) : Admitted(k)
        /\ checks[Len(checks)].t > checks[j].t

\* C34: the wait countdown is monotone (checked under RecoverySpec, whose
\* clock never goes back).  Of two Denied checks with no Admitted check
\* between them, the later reports a wait that is not longer; and every
\* reported wait lies between 1 and TIME_WINDOW / 1000 seconds.
C34_WaitCountdown ==
    /\ \A i \in 1..Len(checks) :
          Denied(i) => checks[i].result.waitTime \in 1..(TIME_WINDOW \div 1000)
    /\ \A i, j \in 1..Len(checks) :
          ( /\ i < j
            /\ Denied(i)
            /\ Denied(j)
            /\ \A k \in (i + 1)..(j - 1) : Denied(k) )
          => checks[j].result.waitTime <= checks[i].result.waitTime

\* C34 witness: a check was denied with the longest wait and, with no
\* admission in between, a later check one millisecond before the window
\* reopened was denied with a wait of one second.
C34_Witness ==
    \E i, j \in 1..Len(checks) :
        /\ i < j
        /\ Denied(i)
        /\ Denied(j)
        /\ \A k \in (i + 1)..(j - 1) : Denied(k)
        /\ checks[j].t > checks[i].t
        /\ checks[i].result.waitTime = TIME_WINDOW \div 1000
        /\ checks[j].result.waitTime = 1

\* ========================================================================
\* The broadcast and the rate-limit popup (checked under StatusSpec)

\* C35: every rateLimitUpdate of the broadcaster carries a waitTime that is
\* null or at least 1, never 0 or negative; so updateRateLimitInfo, run on
\* that message while the rate-limit popup is shown, does not take its
\* auto-hide branch and leaves the popup shown.
C35_BroadcastNeverAutoHides ==
    Broadcasted =>
        LET waitTime == lastEvent.status.waitTime IN
        /\ waitTime = None \/ waitTime[1] >= 1
        /\ ~AutoHides(waitTime)
        /\ updateRateLimitInfo(TRUE, waitTime)

\* C35 witness: after a denial (which raises the popup), a rateLimitUpdate
\* was sent that reports a full window and carries null: the timer had fired
\* when the oldest timestamp of the window was TIME_WINDOW old or older,
\* where line 31 computes 0 or less.
C35_Witness ==
    /\ Broadcasted
    /\ lastEvent.sent
    /\ \E i \in 1..Len(checks) : Denied(i)
    /\ lastEvent.status.remainingRequests = 0
    /\ lastEvent.status.waitTime = None

\* ========================================================================
\* One selection, one translation (checked under ContentSpec)

\* C36 (the claim as stated): between two consecutive selectionchange events
\* the content script sends at most one translate intent, also when mouseup
\* fires again while the response to the first is pending; and
\* isTranslationSent = true implies that a translation for the current
\* selection has been delivered.
C36_OneIntentPerSelection ==
    /\ episode.sent <= 1
    /\ isTranslationSent => episode.delivered

====
